---------------------------- MODULE Spec2Model ----------------------------
(***************************************************************************)
(* FlySky iBus receiver for STM32 HAL (src/ibus.c, src/ibus.h).            *)
(*                                                                         *)
(* Two execution contexts share s_channels and s_fresh:                    *)
(*   - the UART receive-complete interrupt, which runs IBUS_OnRxCplt to    *)
(*     completion (isr_pc), and                                            *)
(*   - the application (main) context, which runs IBUS_Init,               *)
(*     IBUS_GetSnapshot and IBUS_TakeFreshFlag one statement at a time     *)
(*     (pc) and can be preempted between any two statements while          *)
(*     interrupts are enabled (irq).                                       *)
(* A structure assignment in the main context is a sequence of per-field   *)
(* stores in declaration order (ci counts the fields already copied).      *)
(* Variables whose name starts with g_ are history variables: they record  *)
(* what happened and are never read by the modelled code.                  *)
(***************************************************************************)
EXTENDS Integers, Sequences, FiniteSets, TLC

VARIABLES
    s_rx_buf,    \* static volatile uint8_t s_rx_buf[IBUS_FRAME_LEN]
    s_channels,  \* static volatile IBusChannels_t s_channels
    s_fresh,     \* static volatile uint8_t s_fresh
    armed,       \* a HAL_UART_Receive_IT reception on IBUS_UART is in progress
    irq,         \* interrupts enabled (PRIMASK clear)
    tick,        \* HAL_GetTick()
    pc,          \* main context: statement about to execute
    ci,          \* main context: fields already copied by the running structure copy
    out,         \* the caller's IBusChannels_t handed to IBUS_GetSnapshot
    had,         \* local of IBUS_TakeFreshFlag
    ret,         \* value returned by the last IBUS_TakeFreshFlag
    isr_pc,      \* interrupt context: statement about to execute ("none": not in the ISR)
    huart,       \* argument of the running IBUS_OnRxCplt
    ev,          \* g: the step taken last
    g_pre,       \* g: <<s_channels, s_fresh>> when the running ISR was entered
    g_verdict,   \* g: what the last IBUS_OnRxCplt did with its frame
    g_cur,       \* g: the ChannelSet last published as a whole (init or one commit)
    g_by,        \* g: who published it: "boot", "init", "commit", or "torn"
    g_rej,       \* g: consecutive rejected frames before the current one (saturating)
    g_nc,        \* g: commits since the last consumer call returned (saturating)
    g_call,      \* g: how the running / last consumer call relates to coalesced commits
    g_mid,       \* g: a commit set s_fresh between the read and the clear of the take
    g_flip,      \* g: the delivered frame is a valid frame with one bit flipped
    g_read,      \* g: the running / last handler read s_rx_buf
    g_rearm,     \* g: re-arm requests issued by the running / last handler
    g_took,      \* g: the last take returned true and IBUS_Init was not called since
    g_ts,        \* g: last_update_ms of the previous snapshot (-1: none yet)
    g_initSince, \* g: IBUS_Init was called since the previous snapshot returned
    g_irqAt      \* g: irq when the running / last IBUS_GetSnapshot was called

vars == <<s_rx_buf, s_channels, s_fresh, armed, irq, tick, pc, ci, out, had, ret,
          isr_pc, huart, ev, g_pre, g_verdict, g_cur, g_by, g_rej, g_nc, g_call,
          g_mid, g_flip, g_read, g_rearm, g_took, g_ts, g_initSince, g_irqAt>>

(***************************************************************************)
(* Bounds of the model.                                                    *)
(***************************************************************************)
MaxTick == 1
MaxRej == 2

(***************************************************************************)
(* ibus.h                                                                  *)
(***************************************************************************)
IBUS_FRAME_LEN == 32
IBUS_CMD_SERVO == 64
IBUS_NUM_CHANNELS == 10

IBUS_MAP_ROLL == 0
IBUS_MAP_PITCH == 1
IBUS_MAP_THROTTLE == 2
IBUS_MAP_YAW == 3
IBUS_MAP_SW1 == 4
IBUS_MAP_SW2 == 5
IBUS_MAP_SW3 == 6
IBUS_MAP_SW4 == 7
IBUS_MAP_SW5 == 8
IBUS_MAP_SW6 == 9

\* IBusChannels_t: the fields in declaration (memory) order.
Fields ==
    <<"roll", "pitch", "throttle", "yaw", "switch1", "switch2", "switch3",
      "switch4", "switch5", "switch6", "last_update_ms", "frame_ok">>

NumFields == Len(Fields)

\* Static storage is zero-initialised before main() runs.
ZeroChannels ==
    [roll |-> 0, pitch |-> 0, throttle |-> 0, yaw |-> 0,
     switch1 |-> 0, switch2 |-> 0, switch3 |-> 0,
     switch4 |-> 0, switch5 |-> 0, switch6 |-> 0,
     last_update_ms |-> 0, frame_ok |-> FALSE]

ZeroBuf == [i \in 0..(IBUS_FRAME_LEN - 1) |-> 0]

\* The local `init` of IBUS_Init.
InitDefaults ==
    [roll |-> 1500, pitch |-> 1500, yaw |-> 1500, throttle |-> 1000,
     switch1 |-> 1000, switch2 |-> 1000, switch3 |-> 1000,
     switch4 |-> 1000, switch5 |-> 1000, switch6 |-> 1000,
     last_update_ms |-> 0, frame_ok |-> FALSE]

\* The caller's `IBusChannels_t ch;` before IBUS_GetSnapshot fills it: no field
\* holds a value the driver ever writes.
UninitChannels ==
    [roll |-> -1, pitch |-> -1, throttle |-> -1, yaw |-> -1,
     switch1 |-> -1, switch2 |-> -1, switch3 |-> -1,
     switch4 |-> -1, switch5 |-> -1, switch6 |-> -1,
     last_update_ms |-> -1, frame_ok |-> FALSE]

(***************************************************************************)
(* ibus.c: the pure helpers.  A frame b is a function 0..31 -> 0..255.     *)
(***************************************************************************)
U16(x) == x % 65536

\* (uint16_t)((uint16_t)hi << 8) | (uint16_t)lo : the shifted high byte has its
\* low eight bits clear, so the bitwise or is a sum.
\* Faulty variant: the two bytes of a channel taken in the opposite order.
prv_read_ch_BigEndian(b, ch_idx) ==
    LET hi == b[2 + (2 * ch_idx)]
        lo == b[3 + (2 * ch_idx)]
    IN  U16(hi * 256) + lo

prv_read_ch(b, ch_idx) ==
    LET lo == b[2 + (2 * ch_idx)]
        hi == b[3 + (2 * ch_idx)]
    IN  U16(hi * 256) + lo

\* Faulty variant: the loop stops one byte early.
RECURSIVE CrcLoop_StopEarly(_, _, _)
CrcLoop_StopEarly(b, i, calc) ==
    IF i < IBUS_FRAME_LEN - 3
    THEN CrcLoop_StopEarly(b, i + 1, U16(calc - b[i]))
    ELSE calc

RECURSIVE CrcLoop(_, _, _)
CrcLoop(b, i, calc) ==
    IF i < IBUS_FRAME_LEN - 2
    THEN CrcLoop(b, i + 1, U16(calc - b[i]))
    ELSE calc

\* Faulty variant: only the low byte of the checksum is compared.
prv_crc_ok_LowByteOnly(b) ==
    LET calc == CrcLoop(b, 0, 65535)
        rx   == b[30]
    IN  (calc % 256) = rx

prv_crc_ok(b) ==
    LET calc == CrcLoop(b, 0, 65535)
        rx   == U16(b[31] * 256) + b[30]
    IN  calc = rx

\* Faulty variant: the length tag is not checked.
prv_header_ok_CmdOnly(b) == (b[1] = IBUS_CMD_SERVO)

prv_header_ok(b) == (b[0] = IBUS_FRAME_LEN) /\ (b[1] = IBUS_CMD_SERVO)

\* Faulty variant: tmp.last_update_ms is not written.
ParsedChannels_NoStamp(b, cur, now) ==
    LET ch == [i \in 0..(IBUS_NUM_CHANNELS - 1) |-> prv_read_ch(b, i)]
    IN  [cur EXCEPT !.roll = ch[IBUS_MAP_ROLL],
                    !.pitch = ch[IBUS_MAP_PITCH],
                    !.yaw = ch[IBUS_MAP_YAW],
                    !.throttle = ch[IBUS_MAP_THROTTLE],
                    !.switch1 = ch[IBUS_MAP_SW1],
                    !.switch2 = ch[IBUS_MAP_SW2],
                    !.switch3 = ch[IBUS_MAP_SW3],
                    !.switch4 = ch[IBUS_MAP_SW4],
                    !.switch5 = ch[IBUS_MAP_SW5],
                    !.switch6 = ch[IBUS_MAP_SW6],
                    !.frame_ok = TRUE]

\* Faulty variant: switch6 is taken from an eleventh channel (bytes 22..23).
ParsedChannels_ReadsTrailer(b, cur, now) ==
    LET ch == [i \in 0..IBUS_NUM_CHANNELS |-> prv_read_ch(b, i)]
    IN  [cur EXCEPT !.roll = ch[IBUS_MAP_ROLL],
                    !.pitch = ch[IBUS_MAP_PITCH],
                    !.yaw = ch[IBUS_MAP_YAW],
                    !.throttle = ch[IBUS_MAP_THROTTLE],
                    !.switch1 = ch[IBUS_MAP_SW1],
                    !.switch2 = ch[IBUS_MAP_SW2],
                    !.switch3 = ch[IBUS_MAP_SW3],
                    !.switch4 = ch[IBUS_MAP_SW4],
                    !.switch5 = ch[IBUS_MAP_SW5],
                    !.switch6 = ch[IBUS_MAP_SW6 + 1],
                    !.last_update_ms = now,
                    !.frame_ok = TRUE]

\* Faulty variant: tmp.frame_ok is not set.
ParsedChannels_KeepsOk(b, cur, now) ==
    LET ch == [i \in 0..(IBUS_NUM_CHANNELS - 1) |-> prv_read_ch(b, i)]
    IN  [cur EXCEPT !.roll = ch[IBUS_MAP_ROLL],
                    !.pitch = ch[IBUS_MAP_PITCH],
                    !.yaw = ch[IBUS_MAP_YAW],
                    !.throttle = ch[IBUS_MAP_THROTTLE],
                    !.switch1 = ch[IBUS_MAP_SW1],
                    !.switch2 = ch[IBUS_MAP_SW2],
                    !.switch3 = ch[IBUS_MAP_SW3],
                    !.switch4 = ch[IBUS_MAP_SW4],
                    !.switch5 = ch[IBUS_MAP_SW5],
                    !.switch6 = ch[IBUS_MAP_SW6],
                    !.last_update_ms = now]

\* The value prv_parse_and_update stores into s_channels: tmp starts as a copy of
\* the current structure, every field is then overwritten.
ParsedChannels(b, cur, now) ==
    LET ch == [i \in 0..(IBUS_NUM_CHANNELS - 1) |-> prv_read_ch(b, i)]
    IN  [cur EXCEPT !.roll = ch[IBUS_MAP_ROLL],
                    !.pitch = ch[IBUS_MAP_PITCH],
                    !.yaw = ch[IBUS_MAP_YAW],
                    !.throttle = ch[IBUS_MAP_THROTTLE],
                    !.switch1 = ch[IBUS_MAP_SW1],
                    !.switch2 = ch[IBUS_MAP_SW2],
                    !.switch3 = ch[IBUS_MAP_SW3],
                    !.switch4 = ch[IBUS_MAP_SW4],
                    !.switch5 = ch[IBUS_MAP_SW5],
                    !.switch6 = ch[IBUS_MAP_SW6],
                    !.last_update_ms = now,
                    !.frame_ok = TRUE]

\* const IBusChannels_t* IBUS_Peek(void): the view is the live structure.
IBUS_Peek == s_channels

(***************************************************************************)
(* Frames on the wire.                                                     *)
(***************************************************************************)
RECURSIVE SumBytes(_, _)
SumBytes(b, n) == IF n = 0 THEN 0 ELSE b[n - 1] + SumBytes(b, n - 1)

\* checksum = 0xFFFF - sum(bytes[0..29]), stored little-endian at [30..31]
WireChecksum(b) == 65535 - (SumBytes(b, IBUS_FRAME_LEN - 2) % 65536)

\* A frame with header bytes h0, h1, the ten channel values chs (0-based), the
\* eight trailing payload bytes all equal to pad, and the checksum of the wire format.
MkFrame(h0, h1, chs, pad) ==
    LET body == [i \in 0..(IBUS_FRAME_LEN - 1) |->
                    IF i = 0 THEN h0
                    ELSE IF i = 1 THEN h1
                    ELSE IF i < 2 + 2 * IBUS_NUM_CHANNELS
                         THEN IF i % 2 = 0 THEN chs[(i - 2) \div 2] % 256
                                           ELSE chs[(i - 3) \div 2] \div 256
                    ELSE IF i < IBUS_FRAME_LEN - 2 THEN pad
                    ELSE 0]
        sum  == WireChecksum(body)
    IN  [body EXCEPT ![30] = sum % 256, ![31] = sum \div 256]

\* Bit k of byte x inverted.
FlipBit(x, k) ==
    LET p == 2 ^ k
    IN  IF (x \div p) % 2 = 1 THEN x - p ELSE x + p

FlipFrame(b, i, k) == [b EXCEPT ![i] = FlipBit(b[i], k)]

ChanIdx == 0..(IBUS_NUM_CHANNELS - 1)

\* Channel i carries 1000 + i (the README's typical 1000..2000 range).
FrameA == MkFrame(32, 64, [i \in ChanIdx |-> 1000 + i], 0)
\* Channel i carries 2000 - i.
FrameB == MkFrame(32, 64, [i \in ChanIdx |-> 2000 - i], 0)
\* The extremes of the 16-bit range, and a non-zero trailing payload.
FrameC == MkFrame(32, 64, [i \in ChanIdx |-> IF i % 2 = 0 THEN 65535 ELSE 0], 255)
\* The channels of FrameA with another trailing payload (bytes 22..29), hence
\* another checksum.
FrameATrailer == MkFrame(32, 64, [i \in ChanIdx |-> 1000 + i], 165)
\* Wrong length tag / wrong command tag, checksum of the wire format.
FrameBadLen == MkFrame(33, 64, [i \in ChanIdx |-> 1500], 0)
FrameBadCmd == MkFrame(32, 65, [i \in ChanIdx |-> 1500], 0)
\* FrameB with a stored checksum that is off by one.
FrameBadCrc == [FrameB EXCEPT ![30] = (FrameB[30] + 1) % 256]

ValidFrames == {FrameA, FrameB, FrameC}

\* What the line delivers in the concurrency model.
Frames == {FrameA, FrameB, FrameBadCrc, FrameBadLen}


\* What the line delivers in the validation model: every frame above, and every
\* single-bit corruption of a valid frame (chosen in UART_RxCpltCorrupted).
WireFrames == ValidFrames \cup {FrameATrailer, FrameBadCrc, FrameBadLen, FrameBadCmd}

(***************************************************************************)
(* Initial state: static storage as the C startup code leaves it, main()   *)
(* not yet at IBUS_Init, no reception started.                             *)
(***************************************************************************)
Init ==
    /\ s_rx_buf = ZeroBuf
    /\ s_channels = ZeroChannels
    /\ s_fresh = 0
    /\ armed = FALSE
    /\ irq = TRUE
    /\ tick = 0
    /\ pc = "boot"
    /\ ci = 0
    /\ out = UninitChannels
    /\ had = FALSE
    /\ ret = FALSE
    /\ isr_pc = "none"
    /\ huart = "none"
    /\ ev = "reset"
    /\ g_pre = <<ZeroChannels, 0>>
    /\ g_verdict = "none"
    /\ g_cur = ZeroChannels
    /\ g_by = "boot"
    /\ g_rej = 0
    /\ g_nc = 0
    /\ g_call = "plain"
    /\ g_mid = FALSE
    /\ g_flip = FALSE
    /\ g_read = FALSE
    /\ g_rearm = 0
    /\ g_took = FALSE
    /\ g_ts = -1
    /\ g_initSince = FALSE
    /\ g_irqAt = TRUE

\* The history counters saturate: g_rej at MaxRej, g_nc at two ("two or more").
BumpRej(n) == IF n < MaxRej THEN n + 1 ELSE n
BumpNc(n) == IF n < 2 THEN n + 1 ELSE n

\* The main context runs only while no interrupt handler is active.
InMain == isr_pc = "none"

progVarsISR == <<s_rx_buf, s_channels, s_fresh, armed, irq, tick, isr_pc, huart>>
ghostISR == <<g_pre, g_verdict, g_rej, g_flip>>
ghostPub == <<g_cur, g_by>>
ghostTake == <<g_call, g_mid, g_took>>
ghostSnap == <<g_ts, g_initSince, g_irqAt>>
ghostHandler == <<g_read, g_rearm>>
mainVars == <<pc, ci, out, had, ret>>

(***************************************************************************)
(* prv_start_rx: HAL_UART_Receive_IT(IBUS_UART, s_rx_buf, IBUS_FRAME_LEN). *)
(* The HAL starts a reception when none is in progress and answers         *)
(* HAL_BUSY (ignored by the cast to void) when one is: either way a        *)
(* reception is in progress afterwards.                                    *)
(***************************************************************************)
prv_start_rx == armed' = TRUE

(***************************************************************************)
(* IBUS_Init                                                               *)
(***************************************************************************)
\* Entry: the local `init` is built; nothing shared is touched yet.
InitCall(from) ==
    /\ InMain
    /\ pc = from
    /\ pc' = "init_copy"
    /\ ci' = 0
    /\ ev' = "init_call"
    /\ g_cur' = InitDefaults
    /\ g_by' = "init"
    /\ out' = UninitChannels
    /\ g_call' = "plain"
    /\ g_mid' = FALSE
    /\ g_took' = FALSE
    /\ g_initSince' = TRUE
    /\ UNCHANGED <<g_ts, g_irqAt, ghostHandler, progVarsISR, had, ret, ghostISR, g_nc>>

\* The call main() makes once at startup.
IBUS_Init_First == InitCall("boot")

\* A later call, made while reception is already running.
IBUS_Init_Again == InitCall("idle")

\* s_channels = init; one field per step.
IBUS_Init_Copy ==
    /\ InMain
    /\ pc = "init_copy"
    /\ s_channels' = [s_channels EXCEPT ![Fields[ci + 1]] = InitDefaults[Fields[ci + 1]]]
    /\ ci' = IF ci + 1 = NumFields THEN 0 ELSE ci + 1
    /\ pc' = IF ci + 1 = NumFields THEN "init_clear" ELSE "init_copy"
    /\ ev' = "init_copy"
    /\ IF ci + 1 = NumFields /\ g_by # "torn"
       THEN g_cur' = InitDefaults /\ g_by' = "init"
       ELSE UNCHANGED ghostPub
    /\ UNCHANGED <<ghostSnap, ghostHandler, s_rx_buf, s_fresh, armed, irq, tick, out, had, ret, isr_pc, huart,
                   ghostISR, g_nc, ghostTake>>

\* Faulty variant: IBUS_Init leaves the flag as it is.
IBUS_Init_Clear_Forgotten ==
    /\ InMain
    /\ pc = "init_clear"
    /\ pc' = "init_rx"
    /\ ev' = "init_clear"
    /\ UNCHANGED <<ghostSnap, ghostHandler, s_rx_buf, s_channels, s_fresh, armed, irq, tick, ci, out, had,
                   ret, isr_pc, huart, ghostISR, ghostPub, g_nc, ghostTake>>

\* s_fresh = 0;
IBUS_Init_Clear ==
    /\ InMain
    /\ pc = "init_clear"
    /\ s_fresh' = 0
    /\ pc' = "init_rx"
    /\ ev' = "init_clear"
    /\ UNCHANGED <<ghostSnap, ghostHandler, s_rx_buf, s_channels, armed, irq, tick, ci, out, had, ret, isr_pc,
                   huart, ghostISR, ghostPub, g_nc, ghostTake>>

\* prv_start_rx(); and return.
IBUS_Init_StartRx ==
    /\ InMain
    /\ pc = "init_rx"
    /\ prv_start_rx
    /\ pc' = "idle"
    /\ ev' = "init_ret"
    /\ g_nc' = 0
    /\ UNCHANGED <<ghostSnap, ghostHandler, s_rx_buf, s_channels, s_fresh, irq, tick, ci, out, had, ret, isr_pc,
                   huart, ghostISR, ghostPub, ghostTake>>

(***************************************************************************)
(* IBUS_GetSnapshot                                                        *)
(***************************************************************************)
\* Faulty variant: interrupts stay enabled during the copy.
IBUS_GetSnapshot_Disable_NoMask ==
    /\ InMain
    /\ pc = "idle"
    /\ out' = UninitChannels
    /\ ci' = 0
    /\ pc' = "gs_copy"
    /\ ev' = "gs_disable"
    /\ g_call' = IF g_nc >= 2 THEN "gs_coalesced" ELSE "plain"
    /\ g_mid' = FALSE
    /\ g_irqAt' = irq
    /\ UNCHANGED <<g_ts, g_initSince, g_took, ghostHandler, s_rx_buf, s_channels, s_fresh, armed, irq, tick,
                   had, ret, isr_pc, huart, ghostISR, ghostPub, g_nc>>

\* __disable_irq(); the caller's structure is a fresh local.
IBUS_GetSnapshot_Disable ==
    /\ InMain
    /\ pc = "idle"
    /\ irq' = FALSE
    /\ out' = UninitChannels
    /\ ci' = 0
    /\ pc' = "gs_copy"
    /\ ev' = "gs_disable"
    /\ g_call' = IF g_nc >= 2 THEN "gs_coalesced" ELSE "plain"
    /\ g_mid' = FALSE
    /\ g_irqAt' = irq
    /\ UNCHANGED <<g_ts, g_initSince, g_took, ghostHandler, s_rx_buf, s_channels, s_fresh, armed, tick,
                   had, ret, isr_pc, huart, ghostISR, ghostPub, g_nc>>

\* *out = s_channels; one field per step.
IBUS_GetSnapshot_Copy ==
    /\ InMain
    /\ pc = "gs_copy"
    /\ out' = [out EXCEPT ![Fields[ci + 1]] = s_channels[Fields[ci + 1]]]
    /\ ci' = IF ci + 1 = NumFields THEN 0 ELSE ci + 1
    /\ pc' = IF ci + 1 = NumFields THEN "gs_clear" ELSE "gs_copy"
    /\ ev' = "gs_copy"
    /\ UNCHANGED <<ghostSnap, ghostHandler, progVarsISR, had, ret, ghostISR, ghostPub, g_nc, ghostTake>>

\* Faulty variant: "mark as read" also clears frame_ok of the live structure.
IBUS_GetSnapshot_Clear_MarksStruct ==
    /\ InMain
    /\ pc = "gs_clear"
    /\ s_fresh' = 0
    /\ s_channels' = [s_channels EXCEPT !.frame_ok = FALSE]
    /\ pc' = "gs_enable"
    /\ ev' = "gs_clear"
    /\ UNCHANGED <<ghostSnap, ghostHandler, s_rx_buf, armed, irq, tick, ci, out, had, ret, isr_pc,
                   huart, ghostISR, ghostPub, g_nc, ghostTake>>

\* Faulty variant: the flag is not cleared.
IBUS_GetSnapshot_Clear_Forgotten ==
    /\ InMain
    /\ pc = "gs_clear"
    /\ pc' = "gs_enable"
    /\ ev' = "gs_clear"
    /\ UNCHANGED <<ghostSnap, ghostHandler, s_rx_buf, s_channels, s_fresh, armed, irq, tick, ci, out, had, ret,
                   isr_pc, huart, ghostISR, ghostPub, g_nc, ghostTake>>

\* s_fresh = 0u;
IBUS_GetSnapshot_Clear ==
    /\ InMain
    /\ pc = "gs_clear"
    /\ s_fresh' = 0
    /\ pc' = "gs_enable"
    /\ ev' = "gs_clear"
    /\ UNCHANGED <<ghostSnap, ghostHandler, s_rx_buf, s_channels, armed, irq, tick, ci, out, had, ret, isr_pc,
                   huart, ghostISR, ghostPub, g_nc, ghostTake>>

\* __enable_irq(); and return.
IBUS_GetSnapshot_Enable ==
    /\ InMain
    /\ pc = "gs_enable"
    /\ irq' = TRUE
    /\ pc' = "idle"
    /\ ev' = "gs_ret"
    /\ g_nc' = 0
    /\ g_ts' = out.last_update_ms
    /\ g_initSince' = FALSE
    /\ UNCHANGED <<g_irqAt, ghostHandler, s_rx_buf, s_channels, s_fresh, armed, tick, ci, out, had, ret,
                   isr_pc, huart, ghostISR, ghostPub, ghostTake>>

(***************************************************************************)
(* IBUS_TakeFreshFlag                                                      *)
(***************************************************************************)
\* bool had = (s_fresh != 0u);
IBUS_TakeFreshFlag_Read ==
    /\ InMain
    /\ pc = "idle"
    /\ had' = (s_fresh # 0)
    /\ pc' = "tf_clear"
    /\ ev' = "tf_read"
    /\ out' = UninitChannels
    /\ g_call' = IF g_nc >= 2 THEN "first"
                 ELSE IF g_call = "first" THEN "second"
                 ELSE "plain"
    /\ g_mid' = FALSE
    /\ UNCHANGED <<ghostSnap, ghostHandler, progVarsISR, ci, ret, ghostISR, ghostPub, g_nc, g_took>>

\* Faulty variant: the flag is not cleared.
IBUS_TakeFreshFlag_Clear_Forgotten ==
    /\ InMain
    /\ pc = "tf_clear"
    /\ ret' = had
    /\ had' = FALSE
    /\ pc' = "idle"
    /\ ev' = "tf_ret"
    /\ g_nc' = 0
    /\ g_took' = had
    /\ UNCHANGED <<ghostSnap, ghostHandler, s_rx_buf, s_channels, s_fresh, armed, irq, tick, ci, out, isr_pc,
                   huart, ghostISR, ghostPub, g_call, g_mid>>

\* s_fresh = 0u; return had;
IBUS_TakeFreshFlag_Clear ==
    /\ InMain
    /\ pc = "tf_clear"
    /\ s_fresh' = 0
    /\ ret' = had
    /\ had' = FALSE
    /\ pc' = "idle"
    /\ ev' = "tf_ret"
    /\ g_nc' = 0
    /\ g_took' = had
    /\ UNCHANGED <<ghostSnap, ghostHandler, s_rx_buf, s_channels, armed, irq, tick, ci, out, isr_pc, huart,
                   ghostISR, ghostPub, g_call, g_mid>>

(***************************************************************************)
(* IBUS_Peek                                                               *)
(***************************************************************************)
\* return (const IBusChannels_t*)&s_channels; nothing is read or written, the
\* caller gets the address of the live structure (the view IBUS_Peek).
IBUS_Peek_Call ==
    /\ InMain
    /\ pc = "idle"
    /\ ev' = "peek"
    /\ UNCHANGED <<ghostSnap, ghostHandler, progVarsISR, mainVars, ghostISR, ghostPub, g_nc, ghostTake>>

(***************************************************************************)
(* The receive-complete interrupt of the HAL.                              *)
(***************************************************************************)

\* The 32nd byte of the requested reception arrived: the HAL ends the reception
\* and calls HAL_UART_RxCpltCallback(IBUS_UART), which calls IBUS_OnRxCplt.
RxCplt(f, flipped) ==
    /\ irq
    /\ isr_pc = "none"
    /\ armed
    /\ s_rx_buf' = f
    /\ armed' = FALSE
    /\ huart' = "IBUS_UART"
    /\ isr_pc' = "check"
    /\ ev' = "rx"
    /\ g_pre' = <<s_channels, s_fresh>>
    /\ g_verdict' = "pending"
    /\ g_flip' = flipped
    /\ g_read' = FALSE
    /\ g_rearm' = 0
    /\ UNCHANGED <<ghostSnap, s_channels, s_fresh, irq, tick, mainVars, ghostPub, g_rej, g_nc,
                   ghostTake>>

\* The line delivers one of the frames of the concurrency model.
UART_RxCplt == \E f \in Frames : RxCplt(f, FALSE)

\* The line delivers one of the frames of the validation model.
UART_RxCpltWire == \E f \in WireFrames : RxCplt(f, FALSE)

\* The line delivers a valid frame in which noise inverted one bit.
UART_RxCpltCorrupted ==
    \E f \in ValidFrames, i \in 0..(IBUS_FRAME_LEN - 1), k \in 0..7 :
        RxCplt(FlipFrame(f, i, k), TRUE)

\* Another UART of the project completes a reception: the shared
\* HAL_UART_RxCpltCallback hands its handle to IBUS_OnRxCplt.
UART_OtherCplt ==
    /\ irq
    /\ isr_pc = "none"
    /\ huart' = "OTHER_UART"
    /\ isr_pc' = "check"
    /\ ev' = "rx_other"
    /\ g_pre' = <<s_channels, s_fresh>>
    /\ g_verdict' = "pending"
    /\ g_flip' = FALSE
    /\ g_read' = FALSE
    /\ g_rearm' = 0
    /\ UNCHANGED <<ghostSnap, s_rx_buf, s_channels, s_fresh, armed, irq, tick, mainVars, ghostPub,
                   g_rej, g_nc, ghostTake>>

\* Faulty variant: the handler returns without re-arming after an invalid frame.
AfterInvalid_Return == "none"

\* The statement IBUS_OnRxCplt continues with after the empty else branch of
\* the header + CRC check: "rearm" is prv_start_rx().
AfterInvalid == "rearm"

\* Faulty variant: the handle is not compared.
HuartIsIbus_Always == TRUE

\* huart == IBUS_UART
HuartIsIbus == huart = "IBUS_UART"

\* Faulty variant: a completion of another UART also reaches prv_start_rx().
AfterForeign_Rearm == "rearm"

\* The statement IBUS_OnRxCplt continues with when the handle is not
\* IBUS_UART: the if has no else, the function ends ("none").
AfterForeign == "none"

\* if (huart == IBUS_UART) { if (prv_header_ok(b) && prv_crc_ok(b)) ... }
\* b = s_rx_buf is read by the header and CRC tests, inside the outer if.
IBUS_OnRxCplt_Check ==
    /\ isr_pc = "check"
    /\ IF HuartIsIbus
       THEN /\ g_read' = TRUE
            /\ IF prv_header_ok(s_rx_buf) /\ prv_crc_ok(s_rx_buf)
               THEN /\ isr_pc' = "parse"
                    /\ UNCHANGED <<huart, g_verdict, g_rej, g_pre, g_flip>>
               ELSE /\ isr_pc' = AfterInvalid
                    /\ g_verdict' = "rejected"
                    /\ g_rej' = BumpRej(g_rej)
                    /\ IF AfterInvalid = "none"
                       THEN huart' = "none" /\ g_pre' = <<ZeroChannels, 0>> /\ g_flip' = FALSE
                       ELSE UNCHANGED <<huart, g_pre, g_flip>>
       ELSE /\ isr_pc' = AfterForeign
            /\ g_verdict' = "foreign"
            /\ IF AfterForeign = "none"
               THEN huart' = "none" /\ g_pre' = <<ZeroChannels, 0>>
               ELSE UNCHANGED <<huart, g_pre>>
            /\ UNCHANGED <<g_rej, g_flip, g_read>>
    /\ ev' = IF isr_pc' = "none" THEN "isr_ret" ELSE "check"
    /\ UNCHANGED <<ghostSnap, g_rearm, s_rx_buf, s_channels, s_fresh, armed, irq, tick, mainVars, ghostPub,
                   g_nc, ghostTake>>

\* Faulty variant: the accept path re-arms by itself, before the handler does.
prv_parse_and_update_Rearms ==
    /\ isr_pc = "parse"
    /\ s_channels' = ParsedChannels(s_rx_buf, s_channels, tick)
    /\ s_fresh' = 1
    /\ prv_start_rx
    /\ g_rearm' = g_rearm + 1
    /\ isr_pc' = "rearm"
    /\ ev' = "parse"
    /\ g_verdict' = "accepted"
    /\ g_cur' = s_channels'
    /\ g_by' = IF pc = "init_copy" /\ ci > 0 THEN "torn" ELSE "commit"
    /\ g_nc' = IF pc = "idle" THEN BumpNc(g_nc) ELSE g_nc
    /\ g_call' = IF g_call = "first" THEN "first_then_commit" ELSE g_call
    /\ g_mid' = (g_mid \/ pc = "tf_clear")
    /\ UNCHANGED <<ghostSnap, g_read, s_rx_buf, irq, tick, huart, mainVars, g_pre, g_rej, g_flip, g_took>>

\* prv_parse_and_update(b): the handler is not preempted by the main context, so
\* the whole function is one step.
prv_parse_and_update ==
    /\ isr_pc = "parse"
    /\ s_channels' = ParsedChannels(s_rx_buf, s_channels, tick)
    /\ s_fresh' = 1
    /\ isr_pc' = "rearm"
    /\ ev' = "parse"
    /\ g_verdict' = "accepted"
    /\ g_cur' = s_channels'
    /\ g_by' = IF pc = "init_copy" /\ ci > 0 THEN "torn" ELSE "commit"
    /\ g_nc' = IF pc = "idle" THEN BumpNc(g_nc) ELSE g_nc
    /\ g_call' = IF g_call = "first" THEN "first_then_commit" ELSE g_call
    /\ g_mid' = (g_mid \/ pc = "tf_clear")
    /\ UNCHANGED <<ghostSnap, ghostHandler, s_rx_buf, armed, irq, tick, huart, mainVars, g_pre, g_rej, g_flip,
                   g_took>>

\* prv_start_rx(); and return from the handler.
IBUS_OnRxCplt_Rearm ==
    /\ isr_pc = "rearm"
    /\ prv_start_rx
    /\ isr_pc' = "none"
    /\ huart' = "none"
    /\ ev' = "isr_ret"
    /\ g_rej' = IF g_verdict = "accepted" THEN 0 ELSE g_rej
    /\ g_pre' = <<ZeroChannels, 0>>
    /\ g_flip' = FALSE
    /\ g_rearm' = g_rearm + 1
    /\ UNCHANGED <<ghostSnap, g_read, s_rx_buf, s_channels, s_fresh, irq, tick, mainVars, g_verdict,
                   ghostPub, g_nc, ghostTake>>

\* SysTick: HAL_GetTick() advances by one millisecond.
SysTick ==
    /\ irq
    /\ isr_pc = "none"
    /\ tick < MaxTick
    /\ tick' = tick + 1
    /\ ev' = "tick"
    /\ UNCHANGED <<ghostSnap, ghostHandler, s_rx_buf, s_channels, s_fresh, armed, irq, isr_pc, huart, mainVars,
                   ghostISR, ghostPub, g_nc, ghostTake>>

(***************************************************************************)
(* Spec: the driver under an application that calls the API in any order   *)
(* (IBUS_Init first), with frames completing at any time.                  *)
(***************************************************************************)
Next ==
    \/ IBUS_Init_First
    \/ IBUS_Init_Again
    \/ IBUS_Init_Copy
    \/ IBUS_Init_Clear
    \/ IBUS_Init_StartRx
    \/ IBUS_GetSnapshot_Disable
    \/ IBUS_GetSnapshot_Copy
    \/ IBUS_GetSnapshot_Clear
    \/ IBUS_GetSnapshot_Enable
    \/ IBUS_TakeFreshFlag_Read
    \/ IBUS_TakeFreshFlag_Clear
    \/ IBUS_Peek_Call
    \/ UART_RxCplt
    \/ UART_OtherCplt
    \/ IBUS_OnRxCplt_Check
    \/ prv_parse_and_update
    \/ IBUS_OnRxCplt_Rearm
    \/ SysTick

Spec == Init /\ [][Next]_vars

(***************************************************************************)
(* SpecWire: the validator and decoder fed with every frame of the         *)
(* validation model, IBUS_Init called once, no consumer.                   *)
(***************************************************************************)
NextWire ==
    \/ IBUS_Init_First
    \/ IBUS_Init_Copy
    \/ IBUS_Init_Clear
    \/ IBUS_Init_StartRx
    \/ UART_RxCpltWire
    \/ UART_RxCpltCorrupted
    \/ IBUS_OnRxCplt_Check
    \/ prv_parse_and_update
    \/ IBUS_OnRxCplt_Rearm

SpecWire == Init /\ [][NextWire]_vars

(***************************************************************************)
(* SpecCrit: the driver under an application that has critical sections of *)
(* its own (__disable_irq() ... __enable_irq(), the intrinsics             *)
(* IBUS_GetSnapshot uses) and calls the consumer API inside and outside    *)
(* of them.                                                                *)
(***************************************************************************)
\* The application's __disable_irq();
App_DisableIrq ==
    /\ InMain
    /\ pc = "idle"
    /\ irq
    /\ irq' = FALSE
    /\ ev' = "app_disable"
    /\ UNCHANGED <<ghostSnap, ghostHandler, s_rx_buf, s_channels, s_fresh, armed, tick, isr_pc, huart,
                   mainVars, ghostISR, ghostPub, g_nc, ghostTake>>

\* The application's __enable_irq();
App_EnableIrq ==
    /\ InMain
    /\ pc = "idle"
    /\ ~irq
    /\ irq' = TRUE
    /\ ev' = "app_enable"
    /\ UNCHANGED <<ghostSnap, ghostHandler, s_rx_buf, s_channels, s_fresh, armed, tick, isr_pc, huart,
                   mainVars, ghostISR, ghostPub, g_nc, ghostTake>>

NextCrit ==
    \/ IBUS_Init_First
    \/ IBUS_Init_Copy
    \/ IBUS_Init_Clear
    \/ IBUS_Init_StartRx
    \/ App_DisableIrq
    \/ App_EnableIrq
    \/ IBUS_GetSnapshot_Disable
    \/ IBUS_GetSnapshot_Copy
    \/ IBUS_GetSnapshot_Clear
    \/ IBUS_GetSnapshot_Enable
    \/ IBUS_TakeFreshFlag_Read
    \/ IBUS_TakeFreshFlag_Clear
    \/ UART_RxCplt
    \/ IBUS_OnRxCplt_Check
    \/ prv_parse_and_update
    \/ IBUS_OnRxCplt_Rearm

SpecCrit == Init /\ [][NextCrit]_vars

(***************************************************************************)
(* SpecLoop: the driver under the while(1) loop of the README,             *)
(*     if (IBUS_TakeFreshFlag()) { IBusChannels_t ch; IBUS_GetSnapshot(&ch); ... } *)
(* IBUS_Init called once before the loop. The loop is at its top when the  *)
(* last take returned false or ch has been filled, and inside the if when  *)
(* the last take returned true and ch is not filled yet.                   *)
(***************************************************************************)
LoopInsideIf == ret /\ out = UninitChannels

Loop_Take == ~LoopInsideIf /\ IBUS_TakeFreshFlag_Read

Loop_Snapshot == LoopInsideIf /\ IBUS_GetSnapshot_Disable

\* The steps of main(): startup and the loop.
LoopMain ==
    \/ IBUS_Init_First
    \/ IBUS_Init_Copy
    \/ IBUS_Init_Clear
    \/ IBUS_Init_StartRx
    \/ Loop_Take
    \/ IBUS_TakeFreshFlag_Clear
    \/ Loop_Snapshot
    \/ IBUS_GetSnapshot_Copy
    \/ IBUS_GetSnapshot_Clear
    \/ IBUS_GetSnapshot_Enable

\* The steps of a running handler.
LoopHandler ==
    \/ IBUS_OnRxCplt_Check
    \/ prv_parse_and_update
    \/ IBUS_OnRxCplt_Rearm

NextLoop ==
    \/ LoopMain
    \/ LoopHandler
    \/ UART_RxCplt

\* main() keeps running whenever no handler is active (strong fairness: it is
\* interrupted again and again, never starved), a handler that was entered runs
\* to its end; frames may stop arriving at any time (no fairness on UART_RxCplt).
SpecLoop == Init /\ [][NextLoop]_vars /\ SF_vars(LoopMain) /\ WF_vars(LoopHandler)


(***************************************************************************)
(* The wire format, as the protocol states it (closed forms, not the       *)
(* validator's loop).                                                      *)
(***************************************************************************)
WireStored(b) == b[30] + 256 * b[31]

WireValid(b) == b[0] = 32 /\ b[1] = 64 /\ WireStored(b) = WireChecksum(b)

WireChannel(b, i) == b[2 + 2 * i] + 256 * b[3 + 2 * i]

OwnFrame == huart = "IBUS_UART"

\* Two structures hold the same ten channel values.
SameChannelValues(a, b) == \A i \in 1..IBUS_NUM_CHANNELS : a[Fields[i]] = b[Fields[i]]

\* Two frames carry the same channel bytes.
SameChannelBytes(f, b) == \A i \in 2..21 : f[i] = b[i]

(***************************************************************************)
(* C1: every structure IBUS_GetSnapshot returns is the structure that was  *)
(* current when it was copied, and that structure is the init defaults or  *)
(* what one single commit wrote, never a mixture of two writes.  (A        *)
(* structure left half-written by IBUS_Init racing a commit is outside     *)
(* this statement: g_by = "torn".)                                         *)
(***************************************************************************)
C1_SnapshotIsOneCommit ==
    (ev = "gs_ret" /\ g_by # "torn") =>
        /\ out = g_cur
        /\ g_by \in {"init", "commit"}
        /\ g_by = "init" => out = InitDefaults
        /\ g_by = "commit" => out.frame_ok

\* A snapshot of FrameB, committed at tick 1 over an earlier commit of FrameA at 0.
C1_Witness ==
    /\ ev = "gs_ret"
    /\ g_by = "commit"
    /\ out = ParsedChannels(FrameB, InitDefaults, 1)
    /\ s_rx_buf = FrameB
    /\ g_nc = 0
    /\ g_call = "gs_coalesced"

(***************************************************************************)
(* C2: a commit that sets s_fresh while IBUS_TakeFreshFlag runs is never   *)
(* lost: the call returns true, or s_fresh is still set when it returns.   *)
(***************************************************************************)
C2_SetNeverLost ==
    (ev = "tf_ret" /\ g_mid) => (ret \/ s_fresh = 1)

(***************************************************************************)
(* C3: IBUS_GetSnapshot copies and clears inside one critical section: no  *)
(* handler runs between the copy and the clear, and when it returns        *)
(* s_fresh is 0 and s_channels equals the returned structure.              *)
(***************************************************************************)
C3_CopyAndClearProtected ==
    /\ pc \in {"gs_copy", "gs_clear", "gs_enable"} => (~irq /\ isr_pc = "none")
    /\ ev = "gs_ret" => (s_fresh = 0 /\ s_channels = out)

\* A snapshot taken while the flag was set by a commit.
C3_Witness ==
    /\ ev = "gs_ret"
    /\ out.frame_ok
    /\ out.roll = 1000
    /\ s_fresh = 0
    /\ g_call = "gs_coalesced"
    /\ irq

(***************************************************************************)
(* C4: a frame of the configured UART that fails the header or checksum    *)
(* check leaves s_channels and s_fresh as they were when the handler was   *)
(* entered; and after a commit followed by rejected frames only,           *)
(* IBUS_GetSnapshot still returns that commit's structure, frame_ok true.  *)
(***************************************************************************)
C4_RejectLeavesState ==
    /\ (isr_pc # "none" /\ OwnFrame /\ ~WireValid(s_rx_buf)) =>
           (<<s_channels, s_fresh>> = g_pre /\ isr_pc # "parse")
    /\ (ev = "gs_ret" /\ g_by = "commit" /\ g_rej > 0) =>
           (out = g_cur /\ out.frame_ok)

\* FrameA committed, then MaxRej rejected frames (the last with a bad length
\* tag), then a snapshot.
C4_Witness ==
    /\ ev = "gs_ret"
    /\ g_by = "commit"
    /\ g_rej = MaxRej
    /\ s_rx_buf = FrameBadLen
    /\ out = ParsedChannels(FrameA, InitDefaults, 0)

(***************************************************************************)
(* C5: a frame of the configured UART is accepted (committed, s_fresh set) *)
(* exactly when byte 0 is 0x20, byte 1 is 0x40 and bytes 30..31 hold       *)
(* 0xFFFF - sum(bytes 0..29) little-endian; the validator's wraparound     *)
(* subtraction loop computes that same value for every buffer.             *)
(***************************************************************************)
C5_AcceptIffWireValid ==
    /\ CrcLoop(s_rx_buf, 0, 65535) = WireChecksum(s_rx_buf)
    /\ (isr_pc = "rearm" /\ OwnFrame) =>
           /\ (g_verdict = "accepted") <=> WireValid(s_rx_buf)
           /\ g_verdict = "accepted" =>
                  (s_fresh = 1 /\ s_channels.frame_ok
                   /\ s_channels.last_update_ms = tick)
           /\ g_verdict # "accepted" =>
                  (g_verdict = "rejected" /\ <<s_channels, s_fresh>> = g_pre)

\* FrameC (channels at both ends of the range, non-zero trailing bytes) accepted.
C5_Witness ==
    /\ isr_pc = "rearm"
    /\ s_rx_buf = FrameC
    /\ WireValid(s_rx_buf)
    /\ g_verdict = "accepted"
    /\ s_fresh = 1

(***************************************************************************)
(* C6: a valid frame with any single bit of bytes 0..31 inverted is        *)
(* rejected, and s_channels and s_fresh stay as they were.                 *)
(***************************************************************************)
C6_SingleBitFlipRejected ==
    (g_flip /\ isr_pc \in {"parse", "rearm"}) =>
        /\ isr_pc = "rearm"
        /\ g_verdict = "rejected"
        /\ <<s_channels, s_fresh>> = g_pre

\* The top bit of the stored checksum of FrameC inverted, after a commit of FrameA.
C6_Witness ==
    /\ g_flip
    /\ isr_pc = "rearm"
    /\ s_rx_buf = FlipFrame(FrameC, 31, 7)
    /\ g_verdict = "rejected"
    /\ s_channels = ParsedChannels(FrameA, InitDefaults, 0)
    /\ s_fresh = 1

(***************************************************************************)
(* C7: after a frame is accepted, roll, pitch, throttle, yaw and           *)
(* switch1..6 are the little-endian 16-bit values of channels 0, 1, 2, 3   *)
(* and 4..9 of that frame; channel i = 1000 + i gives 1000..1009.          *)
(***************************************************************************)
C7_DefaultMapping ==
    (isr_pc = "rearm" /\ g_verdict = "accepted") =>
        /\ s_channels.roll = WireChannel(s_rx_buf, 0)
        /\ s_channels.pitch = WireChannel(s_rx_buf, 1)
        /\ s_channels.throttle = WireChannel(s_rx_buf, 2)
        /\ s_channels.yaw = WireChannel(s_rx_buf, 3)
        /\ s_channels.switch1 = WireChannel(s_rx_buf, 4)
        /\ s_channels.switch2 = WireChannel(s_rx_buf, 5)
        /\ s_channels.switch3 = WireChannel(s_rx_buf, 6)
        /\ s_channels.switch4 = WireChannel(s_rx_buf, 7)
        /\ s_channels.switch5 = WireChannel(s_rx_buf, 8)
        /\ s_channels.switch6 = WireChannel(s_rx_buf, 9)
        /\ s_rx_buf = FrameA =>
               /\ s_channels.roll = 1000 /\ s_channels.pitch = 1001
               /\ s_channels.throttle = 1002 /\ s_channels.yaw = 1003
               /\ s_channels.switch1 = 1004 /\ s_channels.switch2 = 1005
               /\ s_channels.switch3 = 1006 /\ s_channels.switch4 = 1007
               /\ s_channels.switch5 = 1008 /\ s_channels.switch6 = 1009

\* FrameA accepted over an earlier commit of FrameC.
C7_Witness ==
    /\ isr_pc = "rearm"
    /\ g_verdict = "accepted"
    /\ s_rx_buf = FrameA
    /\ g_pre[1] = ParsedChannels(FrameC, InitDefaults, 0)
    /\ s_channels.throttle = 1002
    /\ s_channels.yaw = 1003

(***************************************************************************)
(* C8: after two or more commits with no consumer call in between, the     *)
(* first IBUS_TakeFreshFlag returns true, a directly following             *)
(* IBUS_TakeFreshFlag with no commit since the first was called returns    *)
(* false, and IBUS_Peek / IBUS_GetSnapshot show the latest commit only.    *)
(***************************************************************************)
C8_FreshnessCoalescing ==
    /\ (ev = "tf_ret" /\ g_call \in {"first", "first_then_commit"}) => ret
    /\ (ev = "tf_ret" /\ g_call = "second") => ~ret
    /\ (pc = "idle" /\ g_nc >= 2) => (IBUS_Peek = g_cur /\ g_by = "commit")
    /\ (ev = "gs_ret" /\ g_call = "gs_coalesced") => (out = g_cur /\ g_by = "commit")

\* The second take after FrameA then FrameB were committed unread.
C8_Witness ==
    /\ ev = "tf_ret"
    /\ g_call = "second"
    /\ ~ret
    /\ g_by = "commit"
    /\ IBUS_Peek = ParsedChannels(FrameB, InitDefaults, 1)
    /\ g_verdict = "accepted"

(***************************************************************************)
(* C9: when any call of IBUS_Init returns, IBUS_Peek shows the defaults,   *)
(* s_fresh is 0 (a take would return false) and a reception is armed.      *)
(***************************************************************************)
C9_InitDefaults ==
    ev = "init_ret" =>
        /\ IBUS_Peek.roll = 1500 /\ IBUS_Peek.pitch = 1500 /\ IBUS_Peek.yaw = 1500
        /\ IBUS_Peek.throttle = 1000
        /\ IBUS_Peek.switch1 = 1000 /\ IBUS_Peek.switch2 = 1000
        /\ IBUS_Peek.switch3 = 1000 /\ IBUS_Peek.switch4 = 1000
        /\ IBUS_Peek.switch5 = 1000 /\ IBUS_Peek.switch6 = 1000
        /\ IBUS_Peek.frame_ok = FALSE
        /\ s_fresh = 0
        /\ armed

(***************************************************************************)
(* C10: when IBUS_OnRxCplt has returned for the configured UART, accepted  *)
(* or rejected, a reception is armed; and a valid frame is accepted and    *)
(* committed however many rejected frames came before it.                  *)
(***************************************************************************)
C10_ContinuousReception ==
    /\ (isr_pc = "none" /\ g_verdict \in {"accepted", "rejected"}) => armed
    /\ (isr_pc = "rearm" /\ OwnFrame /\ WireValid(s_rx_buf)) =>
           /\ g_verdict = "accepted"
           /\ s_fresh = 1
           /\ s_channels.frame_ok
           /\ s_channels.roll = WireChannel(s_rx_buf, 0)
           /\ s_channels.last_update_ms = tick

\* FrameB accepted directly after MaxRej rejected frames.
C10_Witness ==
    /\ isr_pc = "rearm"
    /\ g_verdict = "accepted"
    /\ g_rej = MaxRej
    /\ s_rx_buf = FrameB
    /\ s_channels.roll = 2000

(***************************************************************************)
(* C11: the step IBUS_OnRxCplt takes for a handle other than IBUS_UART     *)
(* leaves s_channels and s_fresh as they were, reads nothing from s_rx_buf *)
(* (no header test, no checksum, no channel extraction) and ends the       *)
(* handler, whatever s_rx_buf holds.                                       *)
(***************************************************************************)
C11_ForeignSourceIgnored ==
    [][(isr_pc = "check" /\ huart = "OTHER_UART") =>
           /\ UNCHANGED <<s_channels, s_fresh, s_rx_buf>>
           /\ ~g_read'
           /\ g_verdict' = "foreign"
           /\ isr_pc' # "parse"]_vars

\* The handler returned for another UART while s_rx_buf held a valid frame whose
\* commit would have set the flag and stamped tick 1.
C11_Witness ==
    /\ ev = "isr_ret"
    /\ g_verdict = "foreign"
    /\ ~g_read
    /\ WireValid(s_rx_buf)
    /\ tick = 1
    /\ s_fresh = 0
    /\ s_channels = ParsedChannels(s_rx_buf, InitDefaults, 0)

(***************************************************************************)
(* C12 as the specification words it: every invocation of IBUS_OnRxCplt,   *)
(* the one for a handle other than IBUS_UART included, issues one re-arm   *)
(* request before it returns.                                              *)
(***************************************************************************)
C12_RearmOnEveryInvocation ==
    (isr_pc = "none" /\ g_verdict \in {"accepted", "rejected", "foreign"}) => g_rearm = 1

(***************************************************************************)
(* C12: an invocation of IBUS_OnRxCplt for IBUS_UART, whether it accepted  *)
(* or rejected the frame, has issued exactly one re-arm request when it    *)
(* returns; an invocation for another handle has issued none.              *)
(***************************************************************************)
C12_RearmOnlyForOwnUart ==
    /\ (isr_pc = "none" /\ g_verdict \in {"accepted", "rejected"}) => g_rearm = 1
    /\ (isr_pc = "none" /\ g_verdict = "foreign") => g_rearm = 0

\* Before IBUS_Init another UART completes: the handler returns, no request
\* was issued and no reception is armed.
C12_Witness ==
    /\ ev = "isr_ret"
    /\ g_verdict = "foreign"
    /\ g_rearm = 0
    /\ pc = "boot"
    /\ ~armed

C14_ConsumerNeverWrites ==
    [][ /\ (s_channels' # s_channels) => (isr_pc = "parse" \/ (InMain /\ pc = "init_copy"))
        /\ (ev' \in {"gs_disable", "gs_copy", "gs_clear", "gs_ret", "tf_read", "tf_ret", "peek"}) =>
               s_channels' = s_channels
        /\ (ev' = "peek") => s_fresh' = s_fresh ]_vars

\* IBUS_Peek called after a take returned true and a snapshot was taken, with a
\* newer commit pending: the structure is that commit and the flag is still set.
C14_Witness ==
    /\ ev = "peek"
    /\ ret
    /\ g_ts = 0
    /\ s_fresh = 1
    /\ g_by = "commit"
    /\ IBUS_Peek = g_cur
    /\ IBUS_Peek.last_update_ms = 1

(***************************************************************************)
(* C15: under the README loop, run forever and fairly, every commit is     *)
(* eventually followed by an IBUS_GetSnapshot that returns the latest      *)
(* committed structure (that commit's or a newer one's), also when no      *)
(* further frame arrives.                                                  *)
(***************************************************************************)
C15_CommitEventuallySnapshot ==
    (ev = "parse") ~> (ev = "gs_ret" /\ out = g_cur /\ g_by = "commit")

(***************************************************************************)
(* C16: while IBUS_OnRxCplt for IBUS_UART tests the header and checksum    *)
(* and extracts the channels, no reception into s_rx_buf is armed and no   *)
(* re-arm request has been issued yet; the request comes after the reads   *)
(* and is the only one of the invocation. No completion is handled while   *)
(* another is.                                                             *)
(***************************************************************************)
C16_ReadsBeforeSingleRearm ==
    /\ (isr_pc \in {"check", "parse"} /\ OwnFrame) => (~armed /\ g_rearm = 0)
    /\ (isr_pc = "rearm") => (OwnFrame /\ g_read /\ ~armed /\ g_rearm = 0)
    /\ (isr_pc = "none" /\ g_verdict \in {"accepted", "rejected"}) => (g_read /\ g_rearm = 1)
    /\ (isr_pc # "none") => (huart # "none" /\ g_verdict \in {"pending", "accepted", "rejected"})

\* A frame cycle that committed FrameB: read, commit, one request, armed again.
C16_Witness ==
    /\ ev = "isr_ret"
    /\ g_verdict = "accepted"
    /\ g_read
    /\ g_rearm = 1
    /\ armed
    /\ s_rx_buf = FrameB
    /\ s_channels.roll = 2000

(***************************************************************************)
(* C17: the structure committed for an accepted frame is the structure     *)
(* that any other valid frame with the same bytes 2..21 yields at the same *)
(* tick; bytes 22..29 and the checksum bytes do not reach it.              *)
(***************************************************************************)
C17_TrailerOnlyInChecksum ==
    (isr_pc = "rearm" /\ g_verdict = "accepted") =>
        \A f \in WireFrames :
            (WireValid(f) /\ SameChannelBytes(f, s_rx_buf)) =>
                /\ s_channels = ParsedChannels(f, g_pre[1], tick)
                /\ \A i \in ChanIdx : WireChannel(f, i) = WireChannel(s_rx_buf, i)

\* FrameATrailer committed right after FrameA: other trailing bytes, other
\* checksum, the same structure as before.
C17_Witness ==
    /\ isr_pc = "rearm"
    /\ g_verdict = "accepted"
    /\ s_rx_buf = FrameATrailer
    /\ \E i \in 22..31 : FrameATrailer[i] # FrameA[i]
    /\ FrameATrailer[30] # FrameA[30]
    /\ g_pre[1] = ParsedChannels(FrameA, InitDefaults, tick)
    /\ s_channels = g_pre[1]

(***************************************************************************)
(* C18: outside the stores of IBUS_Init, s_fresh = 1 implies frame_ok; and *)
(* an IBUS_GetSnapshot that returns after an IBUS_TakeFreshFlag returned   *)
(* true, with no IBUS_Init call since that take, returns frame_ok = true   *)
(* and the latest committed structure (the commit that set the flag or a   *)
(* newer one).                                                             *)
(***************************************************************************)
C18_FreshImpliesFrameOk ==
    /\ (pc # "init_clear" /\ s_fresh = 1) => s_channels.frame_ok
    /\ (ev = "gs_ret" /\ g_took) =>
           /\ out.frame_ok
           /\ g_by = "commit"
           /\ out = g_cur

\* Take returned true, one more frame was committed at tick 1, then the snapshot
\* returned the newer commit.
C18_Witness ==
    /\ ev = "gs_ret"
    /\ g_took
    /\ ret
    /\ out.frame_ok
    /\ out.last_update_ms = 1
    /\ out.roll = 2000

(***************************************************************************)
(* C19 as the specification words it: whenever no store of IBUS_Init is    *)
(* under way, last_update_ms is the tick of the commit whose channel       *)
(* values s_channels holds, 0 if init was the last writer; and every       *)
(* IBUS_GetSnapshot returns a timestamp not smaller than the one the       *)
(* snapshot before it returned.                                            *)
(***************************************************************************)
C19_TimestampOfHeldCommit ==
    /\ (pc # "init_copy" /\ g_by \in {"commit", "torn"} /\ SameChannelValues(s_channels, g_cur)) =>
           s_channels.last_update_ms = g_cur.last_update_ms
    /\ (pc # "init_copy" /\ g_by = "init") => s_channels.last_update_ms = 0
    /\ (pc = "gs_enable" /\ g_ts >= 0) => out.last_update_ms >= g_ts

(***************************************************************************)
(* C19: whenever no store of IBUS_Init is under way, last_update_ms is the *)
(* tick of the latest commit or the 0 IBUS_Init wrote: the commit's tick   *)
(* when a commit was the last writer of the structure, 0 when a completed  *)
(* IBUS_Init was. A commit stamps the current tick, a rejected frame       *)
(* leaves the timestamp alone, and a snapshot returns a timestamp not      *)
(* smaller than the snapshot before it did, provided IBUS_Init was not     *)
(* called between the two.                                                 *)
(***************************************************************************)
C19_TimestampByCommitOrInit ==
    /\ (pc # "init_copy") => s_channels.last_update_ms \in {0, g_cur.last_update_ms}
    /\ (pc # "init_copy" /\ g_by = "commit") => s_channels.last_update_ms = g_cur.last_update_ms
    /\ (pc # "init_copy" /\ g_by = "init") => s_channels.last_update_ms = 0
    /\ (isr_pc = "rearm" /\ g_verdict = "accepted") => s_channels.last_update_ms = tick
    /\ (isr_pc = "rearm" /\ g_verdict = "rejected") =>
           s_channels.last_update_ms = g_pre[1].last_update_ms
    /\ (pc = "gs_enable" /\ g_ts >= 0 /\ ~g_initSince) => out.last_update_ms >= g_ts

\* Second snapshot without an init in between: the first returned tick 0, this
\* one returns tick 1 of a newer commit, the last frame having been rejected.
C19_Witness ==
    /\ pc = "gs_enable"
    /\ ~g_initSince
    /\ g_ts = 0
    /\ out.frame_ok
    /\ out.last_update_ms = 1
    /\ g_verdict = "rejected"

(***************************************************************************)
(* C20: when IBUS_GetSnapshot returns, interrupts are enabled if and only  *)
(* if they were enabled when it was called; and outside the copy-and-clear *)
(* of IBUS_GetSnapshot interrupts are disabled only if the application     *)
(* disabled them.                                                          *)
(***************************************************************************)
C20_IrqStateRestored ==
    /\ (ev = "gs_ret") => (irq = g_irqAt)
    /\ (~irq /\ pc \notin {"gs_copy", "gs_clear", "gs_enable"}) =>
           ev \in {"app_disable", "tf_read", "tf_ret", "init_call", "init_copy", "init_clear", "init_ret"}

====
